---- MODULE Spec2Model ----
(***************************************************************************)
(* A model of mmagic/datasets/transforms/gcp_unprocess.py: the sRGB -> raw *)
(* "unprocessing" pipeline (camera-model samplers, colorimetric stages,    *)
(* Bayer mosaic, noise injection and the three orchestrator entry points). *)
(*                                                                         *)
(* Floating-point values are modelled in fixed point: a float x is the     *)
(* integer round(x * Unit), and the entries of colour matrices are kept at *)
(* the finer resolution CcmUnit.  Tensors are records [shape, at] whose    *)
(* "at" maps 0-based index tuples to values, so that the permute, slice,   *)
(* stack and reshape calls of the source are modelled by what they do to   *)
(* the indices.                                                            *)
(***************************************************************************)
EXTENDS Integers, Sequences, FiniteSets, TLC

VARIABLES
    rng,      \* the ambient (process-global) generators of torch and numpy: draws consumed
              \* so far, modulo RngPeriod
    pc,       \* position of the running call: "idle", a stage name, "return" or "error"
    fn,       \* entry point being executed ("none" when idle)
    arg,      \* arguments the caller passed
    image,    \* the local variable `image` of the running call
    meta,     \* camera metadata sampled (or received) by the running call
    local,    \* other locals of the running call (the draws it took, Bayer planes, gray and
              \* mask) and the ambient generators' positions when it was entered
    log,      \* stages the running call has invoked so far, in order
    ret,      \* value handed back to the caller
    hist      \* an earlier completed call (entry point, arguments, generator position, result)

vars == <<rng, pc, fn, arg, image, meta, local, log, ret, hist>>

----------------------------------------------------------------------------
(* Bounds of the model *)

\* largest height and width of the images handed to the orchestrators
MaxDim == 2
\* largest height and width of the images handed to mosaic directly
MaxMosaicDim == 4
\* the ambient generators' positions are tracked modulo this
RngPeriod == 3
\* largest seed (count) handed to add_noise_test
MaxCount == 2

----------------------------------------------------------------------------
(* Fixed-point arithmetic *)

\* the float 1.0
Unit == 100
\* 1.0 for the entries of a colour-correction matrix
CcmUnit == 10000
\* float +inf (1.0 / 0.0)
Inf == 999999999

Abs(x) == IF x < 0 THEN -x ELSE x
Max(a, b) == IF a >= b THEN a ELSE b
Min(a, b) == IF a <= b THEN a ELSE b

\* a / b rounded to the nearest integer (b # 0)
RoundDiv(a, b) ==
    IF b > 0 THEN (2 * a + b) \div (2 * b)
    ELSE (2 * (-a) + (-b)) \div (2 * (-b))

\* float product and quotient of two values at resolution Unit
FMul(a, b) ==
    IF Abs(a) = Inf \/ Abs(b) = Inf
    THEN (IF (a > 0) = (b > 0) THEN Inf ELSE -Inf)
    ELSE RoundDiv(a * b, Unit)

FDiv(a, b) ==
    IF b = 0 THEN (IF a >= 0 THEN Inf ELSE -Inf)
    ELSE IF Abs(b) = Inf THEN 0
    ELSE RoundDiv(a * Unit, b)

RECURSIVE SumSeq(_)
SumSeq(s) == IF s = <<>> THEN 0 ELSE Head(s) + SumSeq(Tail(s))

----------------------------------------------------------------------------
(* Tensors: a shape and the elements in row-major order *)

\* the sequence <<f(1), ..., f(n)>>
BuildSeq(n, f(_)) ==
    LET RECURSIVE Upto(_)
        Upto(k) == IF k = 0 THEN <<>> ELSE Append(Upto(k - 1), f(k))
    IN  Upto(n)

NumEl(shape) == IF Len(shape) = 2 THEN shape[1] * shape[2]
                ELSE shape[1] * shape[2] * shape[3]

\* position of the element at (0-based) index idx in row-major order
FlatIndex(shape, idx) ==
    IF Len(shape) = 2 THEN idx[1] * shape[2] + idx[2]
    ELSE (idx[1] * shape[2] + idx[2]) * shape[3] + idx[3]

\* the index of the element at position n
Unflat(shape, n) ==
    IF Len(shape) = 2 THEN << n \div shape[2], n % shape[2] >>
    ELSE << n \div (shape[2] * shape[3]), (n \div shape[3]) % shape[2], n % shape[3] >>

\* the tensor of the given shape whose element at idx is f(idx)
Tensor(shape, f(_)) ==
    [shape |-> shape,
     data |-> BuildSeq(NumEl(shape), LAMBDA k : f(Unflat(shape, k - 1)))]

\* t[idx]
At(t, idx) == t.data[FlatIndex(t.shape, idx) + 1]

NoTensor == [shape |-> <<0, 0, 0>>, data |-> <<>>]

\* tensor.permute(p[1], p[2], p[3]): axis i of the result is axis p[i] of t (0-based)
Permute(t, p) ==
    LET inv == [k \in 1 .. 3 |-> CHOOSE i \in 1 .. 3 : p[i] + 1 = k]
    IN  Tensor(<<t.shape[p[1] + 1], t.shape[p[2] + 1], t.shape[p[3] + 1]>>,
               LAMBDA idx : At(t, <<idx[inv[1]], idx[inv[2]], idx[inv[3]]>>))

\* an elementwise operation
MapT(t, f(_)) == [shape |-> t.shape, data |-> BuildSeq(Len(t.data), LAMBDA k : f(t.data[k]))]

\* torch.clamp(t, min=lo, max=hi)
Clamp(t, lo, hi) == MapT(t, LAMBDA x : Min(Max(x, lo), hi))

\* torch.clamp(t, min=lo)
ClampMin(t, lo) == MapT(t, LAMBDA x : Max(x, lo))

----------------------------------------------------------------------------
(* 3x3 colour matrices, entries at resolution CcmUnit, as tuples of rows *)

Mat3(f(_, _)) ==
    << <<f(1, 1), f(1, 2), f(1, 3)>>,
       <<f(2, 1), f(2, 2), f(2, 3)>>,
       <<f(3, 1), f(3, 2), f(3, 3)>> >>

\* torch.mm(a, b)
MatMul(a, b) ==
    Mat3(LAMBDA i, j :
        RoundDiv(a[i][1] * b[1][j] + a[i][2] * b[2][j] + a[i][3] * b[3][j], CcmUnit))

Identity3 == Mat3(LAMBDA i, j : IF i = j THEN CcmUnit ELSE 0)

\* cofactor (i, j) of m, rescaled to resolution CcmUnit
Cofactor(m, i, j) ==
    LET r1 == (i % 3) + 1
        r2 == ((i + 1) % 3) + 1
        c1 == (j % 3) + 1
        c2 == ((j + 1) % 3) + 1
    IN  RoundDiv(m[r1][c1] * m[r2][c2] - m[r1][c2] * m[r2][c1], CcmUnit)

Det(m) ==
    RoundDiv(m[1][1] * Cofactor(m, 1, 1) + m[1][2] * Cofactor(m, 1, 2)
                 + m[1][3] * Cofactor(m, 1, 3), CcmUnit)

\* a transposed matrix in place of the inverse
InverseTransposed(m) == Mat3(LAMBDA i, j : m[j][i])

\* torch.inverse(m): the adjugate over the determinant
Inverse(m) == Mat3(LAMBDA i, j : RoundDiv(Cofactor(m, j, i) * CcmUnit, Det(m)))

----------------------------------------------------------------------------
(* Camera-model samplers.  The raw outcomes of the generator's draws are   *)
(* parameters; the actions choose them.                                    *)

\* the four XYZ -> camera matrices
xyz2cams ==
    << << <<10234, -2969, -2266>>, <<-5625, 16328,  -469>>, << -703, 2188, 6406>> >>,
       << << 4913,  -541,  -202>>, <<-6130, 13513,  2906>>, <<-1564, 2151, 7183>> >>,
       << << 8380, -2630,  -639>>, <<-2887, 10725,  2496>>, << -627, 1427, 5438>> >>,
       << << 6596, -2079,  -562>>, <<-4782, 13016,  1933>>, << -970, 1581, 5181>> >> >>

num_ccms == Len(xyz2cams)

\* the RGB -> XYZ matrix, to four decimals
rgb2xyz ==
    << <<4125, 3576, 1804>>,
       <<2127, 7152,  722>>,
       << 193, 1192, 9503>> >>

\* outcomes of FloatTensor(num_ccms, 1, 1).uniform_(1e-8, 1e8), in units of 1e7:
\* equal weights, or one camera outweighing the others
WeightDraws ==
    { <<5, 5, 5, 5>>, <<9, 1, 1, 1>>, <<1, 1, 9, 2>> }

\* random_ccm(), the uniform draw having produced `weights`
random_ccm(weights) ==
    LET weights_sum == SumSeq(weights)
        xyz2cam == Mat3(LAMBDA i, j :
            RoundDiv(SumSeq(BuildSeq(num_ccms, LAMBDA k : xyz2cams[k][i][j] * weights[k])),
                     weights_sum))
        rgb2cam == MatMul(xyz2cam, rgb2xyz)
    IN  Mat3(LAMBDA i, j : RoundDiv(rgb2cam[i][j] * CcmUnit, SumSeq(rgb2cam[i])))

\* outcomes of a standard normal draw (z-scores at resolution Unit); the
\* support of the normal distribution is unbounded on both sides
NormalDraws == {-850, -800, 0, 300}

\* outcomes of a uniform draw on [0, 1)
UniformDraws == {0, 99}

\* tdist.Normal(loc, scale).sample(), the standard normal draw being z
NormalSample(loc, scale, z) == loc + FMul(scale, z)

\* FloatTensor(1).uniform_(from, to), the draw on [0, 1) being u
UniformSample(from, to, u) == from + FMul(to - from, u)

\* the default arguments of random_gains
DefaultGainArgs ==
    [rgb_gain_ratio |-> 100, red_gain_range |-> <<190, 240>>,
     blue_gain_range |-> <<150, 190>>]

\* random_gains(rgb_gain_ratio, red_gain_range, blue_gain_range)
random_gains(rgb_gain_ratio, red_gain_range, blue_gain_range, z, u_red, u_blue) ==
    [rgb_gain  |-> FMul(rgb_gain_ratio, FDiv(Unit, NormalSample(80, 10, z))),
     red_gain  |-> UniformSample(red_gain_range[1], red_gain_range[2], u_red),
     blue_gain |-> UniformSample(blue_gain_range[1], blue_gain_range[2], u_blue)]

\* every gain triple random_gains() can return with its default arguments
DefaultGains ==
    { random_gains(DefaultGainArgs.rgb_gain_ratio, DefaultGainArgs.red_gain_range,
                   DefaultGainArgs.blue_gain_range, z, u_red, u_blue) :
        z \in NormalDraws, u_red \in UniformDraws, u_blue \in UniformDraws }

----------------------------------------------------------------------------
(* Colorimetric transform stage *)

\* round(Unit * (0.5 - sin(asin(1 - 2y) / 3))) for y = 0/Unit, 1/Unit, ..., 1
InverseSmoothstepTable ==
    <<   0,   6,   8,  10,  12,  14,  15,  16,  17,  18,
        20,  21,  22,  23,  24,  24,  25,  26,  27,  28,
        29,  30,  30,  31,  32,  33,  33,  34,  35,  36,
        36,  37,  38,  38,  39,  40,  41,  41,  42,  43,
        43,  44,  45,  45,  46,  47,  47,  48,  49,  49,
        50,  51,  51,  52,  53,  53,  54,  55,  55,  56,
        57,  57,  58,  59,  59,  60,  61,  62,  62,  63,
        64,  64,  65,  66,  67,  67,  68,  69,  70,  70,
        71,  72,  73,  74,  75,  76,  76,  77,  78,  79,
        80,  82,  83,  84,  85,  86,  88,  90,  92,  94,
       100 >>

\* round(Unit * x^2.2) for x = 0/Unit, 1/Unit, ..., 1
GammaTable ==
    <<   0,   0,   0,   0,   0,   0,   0,   0,   0,   1,
         1,   1,   1,   1,   1,   2,   2,   2,   2,   3,
         3,   3,   4,   4,   4,   5,   5,   6,   6,   7,
         7,   8,   8,   9,   9,  10,  11,  11,  12,  13,
        13,  14,  15,  16,  16,  17,  18,  19,  20,  21,
        22,  23,  24,  25,  26,  27,  28,  29,  30,  31,
        33,  34,  35,  36,  37,  39,  40,  41,  43,  44,
        46,  47,  49,  50,  52,  53,  55,  56,  58,  60,
        61,  63,  65,  66,  68,  70,  72,  74,  75,  77,
        79,  81,  83,  85,  87,  89,  91,  94,  96,  98,
       100 >>

\* inverse_smoothstep(image)
inverse_smoothstep(img) ==
    LET hwc == Permute(img, <<1, 2, 0>>)
        clamped == Clamp(hwc, 0, Unit)
        out == MapT(clamped, LAMBDA y : InverseSmoothstepTable[y + 1])
    IN  Permute(out, <<2, 0, 1>>)

\* gamma_expansion(image); the floor 1e-8 is 0 at resolution Unit, and the
\* table covers the values inverse_smoothstep can hand over, [0, 1]
gamma_expansion(img) ==
    LET hwc == Permute(img, <<1, 2, 0>>)
        out == MapT(ClampMin(hwc, 0), LAMBDA x : GammaTable[x + 1])
    IN  Permute(out, <<2, 0, 1>>)

\* apply_ccm(image, ccm): out[.., i] = sum_j image[.., j] * ccm[i][j]
\* (the reshape to [-1, 3] and back only renumbers the pixels)
apply_ccm(img, ccm) ==
    LET hwc == Permute(img, <<1, 2, 0>>)
        out == Tensor(hwc.shape, LAMBDA idx :
                   RoundDiv(At(hwc, <<idx[1], idx[2], 0>>) * ccm[idx[3] + 1][1]
                              + At(hwc, <<idx[1], idx[2], 1>>) * ccm[idx[3] + 1][2]
                              + At(hwc, <<idx[1], idx[2], 2>>) * ccm[idx[3] + 1][3],
                            CcmUnit))
    IN  Permute(out, <<2, 0, 1>>)

inflection == 90

\* the per-channel gains of safe_invert_gains
ChannelGains(rgb_gain, red_gain, blue_gain) ==
    << FDiv(FDiv(Unit, red_gain), rgb_gain),
       FDiv(Unit, rgb_gain),
       FDiv(FDiv(Unit, blue_gain), rgb_gain) >>

\* gray = torch.mean(image, dim=-1, keepdim=True) for one pixel of an HxWxC image
Gray(hwc, r, c) ==
    RoundDiv(At(hwc, <<r, c, 0>>) + At(hwc, <<r, c, 1>>) + At(hwc, <<r, c, 2>>), 3)

\* the mask with the ramp clamped on both sides
MaskClampedAbove(gray) ==
    LET ramp == Min(FDiv(Max(gray - inflection, 0), Unit - inflection), Unit)
    IN  FMul(ramp, ramp)

\* mask = (torch.clamp(gray - inflection, min=0.0) / (1.0 - inflection))**2.0
Mask(gray) ==
    LET ramp == FDiv(Max(gray - inflection, 0), Unit - inflection)
    IN  FMul(ramp, ramp)

\* the blend without the outer maximum
SafeGainNoMax(mask, gain) == mask + FMul(Unit - mask, gain)

\* safe_gains = torch.max(mask + (1.0 - mask) * gains, gains), one element
SafeGain(mask, gain) == Max(mask + FMul(Unit - mask, gain), gain)

\* the locals gray and mask (HxWx1) and the output of safe_invert_gains
safe_invert_gains_locals(img, rgb_gain, red_gain, blue_gain) ==
    LET hwc == Permute(img, <<1, 2, 0>>)
        gains == ChannelGains(rgb_gain, red_gain, blue_gain)
        gray == Tensor(<<hwc.shape[1], hwc.shape[2], 1>>,
                       LAMBDA idx : Gray(hwc, idx[1], idx[2]))
        mask == MapT(gray, LAMBDA g : Mask(g))
        out == Tensor(hwc.shape, LAMBDA idx :
                   FMul(At(hwc, idx),
                        SafeGain(At(mask, <<idx[1], idx[2], 0>>), gains[idx[3] + 1])))
    IN  [gray |-> gray, mask |-> mask, out |-> Permute(out, <<2, 0, 1>>)]

\* safe_invert_gains(image, rgb_gain, red_gain, blue_gain)
safe_invert_gains(img, rgb_gain, red_gain, blue_gain) ==
    safe_invert_gains_locals(img, rgb_gain, red_gain, blue_gain).out

----------------------------------------------------------------------------
(* Mosaic stage *)

\* the slice length rounded down: right only for an even axis
SliceLenRoundedDown(n, start) == n \div 2

\* the number of elements of the slice start::2 of an axis of length n
SliceLen(n, start) == IF n <= start THEN 0 ELSE (n - start + 1) \div 2

\* image[r0::2, c0::2, ch] of an HxWxC image
BayerPlane(hwc, r0, c0, ch) ==
    Tensor(<<SliceLen(hwc.shape[1], r0), SliceLen(hwc.shape[2], c0)>>,
            LAMBDA idx : At(hwc, <<r0 + 2 * idx[1], c0 + 2 * idx[2], ch>>))

\* the four planes mosaic slices out of the image, in the order it stacks them
BayerPlanes(img) ==
    LET hwc == Permute(img, <<1, 2, 0>>)
    IN  << BayerPlane(hwc, 0, 0, 0),      \* red
           BayerPlane(hwc, 0, 1, 1),      \* green_red
           BayerPlane(hwc, 1, 0, 1),      \* green_blue
           BayerPlane(hwc, 1, 1, 2) >>    \* blue

\* torch.stack accepts only tensors of one shape
Stackable(planes) == \A k \in 1 .. Len(planes) : planes[k].shape = planes[1].shape

\* torch.stack(planes, dim=-1)
Stack(planes) ==
    Tensor(<<planes[1].shape[1], planes[1].shape[2], Len(planes)>>,
            LAMBDA idx : At(planes[idx[3] + 1], <<idx[1], idx[2]>>))

\* torch.reshape(t, shape): the elements keep their row-major order
Reshape(t, shape) == Tensor(shape, LAMBDA idx : t.data[FlatIndex(shape, idx) + 1])

\* the stack and reshape with the two green planes exchanged
MosaicOutSwappedGreens(img, planes) ==
    LET out == Stack(<<planes[1], planes[3], planes[2], planes[4]>>)
    IN  Permute(Reshape(out, <<img.shape[2] \div 2, img.shape[3] \div 2, 4>>), <<2, 0, 1>>)

\* out = stack(...); out = reshape(out, (H // 2, W // 2, 4)); out.permute(2, 0, 1)
MosaicOut(img, planes) ==
    LET out == Stack(planes)
    IN  Permute(Reshape(out, <<img.shape[2] \div 2, img.shape[3] \div 2, 4>>), <<2, 0, 1>>)

\* mosaic(image): the output, or the error torch.stack raises
mosaic(img) ==
    LET planes == BayerPlanes(img)
    IN  IF Stackable(planes)
        THEN [ok |-> TRUE, image |-> MosaicOut(img, planes)]
        ELSE [ok |-> FALSE, image |-> NoTensor]

----------------------------------------------------------------------------
(* Noise-injection stage *)

RECURSIVE IPow(_, _)
IPow(x, e) == IF e = 0 THEN 1 ELSE x * IPow(x, e - 1)

\* the integer square root
ISqrt(n) == CHOOSE r \in 0 .. n : r * r <= n /\ n < (r + 1) * (r + 1)

\* variance = image * shot_noise + read_noise**read_noise_exponent, one element,
\* kept at resolution Unit * Unit
Variance(x, shot_noise, read_noise, read_noise_exponent) ==
    x * shot_noise
        + RoundDiv(IPow(read_noise, read_noise_exponent) * Unit * Unit,
                   IPow(Unit, read_noise_exponent))

\* torch.sqrt(variance), at resolution Unit
Std(variance) == ISqrt(variance)

\* add_noise(image, shot_noise, read_noise, read_noise_exponent), the ambient
\* generator having produced the standard normal draws zs (one per element)
add_noise(img, shot_noise, read_noise, read_noise_exponent, zs) ==
    LET hwc == Permute(img, <<1, 2, 0>>)
        out == Tensor(hwc.shape, LAMBDA idx :
                   At(hwc, idx)
                     + FMul(Std(Variance(At(hwc, idx), shot_noise, read_noise,
                                         read_noise_exponent)),
                            zs[FlatIndex(hwc.shape, idx) + 1]))
    IN  Permute(out, <<2, 0, 1>>)

\* standard normal values a torch.Generator hands out
GeneratorTable == <<-150, 70, -20, 110, 0, -90, 40>>

\* the draw taken from the ambient generator, whatever the seed
GeneratorNormalAmbient(seed, k) ==
    GeneratorTable[((rng.torch * 3 + k * 5) % Len(GeneratorTable)) + 1]

\* the k-th standard normal draw of a torch.Generator after manual_seed(seed)
GeneratorNormal(seed, k) == GeneratorTable[((seed * 3 + k * 5) % Len(GeneratorTable)) + 1]

\* add_noise_test(image, shot_noise, read_noise, count)
add_noise_test(img, shot_noise, read_noise, count) ==
    LET hwc == Permute(img, <<1, 2, 0>>)
        seed == count
        out == Tensor(hwc.shape, LAMBDA idx :
                   At(hwc, idx)
                     + FMul(Std(Variance(At(hwc, idx), shot_noise, read_noise, 2)),
                            GeneratorNormal(seed, FlatIndex(hwc.shape, idx))))
    IN  Permute(out, <<2, 0, 1>>)

----------------------------------------------------------------------------
(* Inputs *)

\* a channel-first image of height h and width w whose elements run through
\* base, base + step, ... in row-major order (modulo the range [0, 1])
PatternImage(h, w, base, step) ==
    Tensor(<<3, h, w>>, LAMBDA idx :
        (base + step * FlatIndex(<<3, h, w>>, idx)) % (Unit + 1))

\* flat mid-gray, fully saturated, and a ramp from dark to bright
Patterns == { <<50, 0>>, <<100, 0>>, <<20, 7>> }

OrchestratorImages ==
    { PatternImage(h, w, p[1], p[2]) : h \in 1 .. MaxDim, w \in 1 .. MaxDim, p \in Patterns }

\* images whose elements are pairwise distinct: each element is its own position
MosaicImages ==
    { PatternImage(h, w, 0, 1) : h \in 1 .. MaxMosaicDim, w \in 1 .. MaxMosaicDim }

IsOdd(n) == n % 2 = 1
OddShaped(img) == IsOdd(img.shape[2]) \/ IsOdd(img.shape[3])

----------------------------------------------------------------------------
(* The orchestrators *)

NoValue == [x \in {} |-> 0]
NoRet == [status |-> "none", value |-> NoValue]
NoHist == [fn |-> "none", arg |-> NoValue, rng |-> [torch |-> 0, numpy |-> 0], ret |-> NoRet]

\* rgb2cam = random_ccm(); cam2rgb = torch.inverse(rgb2cam);
\* rgb_gain, red_gain, blue_gain = random_gains(), and the metadata record
\* built from them
SampledMetadata(weights, z, u_red, u_blue) ==
    LET rgb2cam == random_ccm(weights)
        cam2rgb == Inverse(rgb2cam)
        gains == random_gains(DefaultGainArgs.rgb_gain_ratio,
                              DefaultGainArgs.red_gain_range,
                              DefaultGainArgs.blue_gain_range, z, u_red, u_blue)
    IN  [cam2rgb |-> cam2rgb, rgb2cam |-> rgb2cam, rgb_gain |-> gains.rgb_gain,
         red_gain |-> gains.red_gain, blue_gain |-> gains.blue_gain]

\* the number of draws random_ccm and random_gains take from the ambient generator
SampleDraws == num_ccms + 3

\* n draws from torch's global generator, from numpy's global generator
Advance(r, n) == [r EXCEPT !.torch = (@ + n) % RngPeriod]
AdvanceNumpy(r, n) == [r EXCEPT !.numpy = (@ + n) % RngPeriod]

\* the chain of unprocess_gt with the final clamp left out
unprocess_gt_image_noClamp(img, m) ==
    safe_invert_gains(apply_ccm(gamma_expansion(inverse_smoothstep(img)), m.rgb2cam),
                      m.rgb_gain, m.red_gain, m.blue_gain)

\* the image unprocess_gt computes once its metadata m is sampled (lines 190-198)
unprocess_gt_image(img, m) ==
    LET a == inverse_smoothstep(img)
        b == gamma_expansion(a)
        c == apply_ccm(b, m.rgb2cam)
        d == safe_invert_gains(c, m.rgb_gain, m.red_gain, m.blue_gain)
    IN  Clamp(d, 0, Unit)

\* unprocess_meta_gt drawing its brightening gain anew from the ambient generator
unprocess_meta_gt_resamples(img, rgb_gains, red_gains, blue_gains, rgb2cam, cam2rgb) ==
    LET drawn == IF rng.torch = 0 THEN 125 ELSE 91
        e == Clamp(safe_invert_gains(apply_ccm(gamma_expansion(inverse_smoothstep(img)), rgb2cam),
                                     drawn, red_gains, blue_gains), 0, Unit)
    IN  [image |-> e,
         metadata |-> [cam2rgb |-> cam2rgb, rgb2cam |-> rgb2cam, rgb_gain |-> rgb_gains,
                       red_gain |-> red_gains, blue_gain |-> blue_gains]]

\* the image and the metadata unprocess_meta_gt returns
unprocess_meta_gt_result(img, rgb_gains, red_gains, blue_gains, rgb2cam, cam2rgb) ==
    LET a == inverse_smoothstep(img)
        b == gamma_expansion(a)
        c == apply_ccm(b, rgb2cam)
        d == safe_invert_gains(c, rgb_gains, red_gains, blue_gains)
        e == Clamp(d, 0, Unit)
    IN  [image |-> e,
         metadata |-> [cam2rgb |-> cam2rgb, rgb2cam |-> rgb2cam, rgb_gain |-> rgb_gains,
                       red_gain |-> red_gains, blue_gain |-> blue_gains]]

\* the value unprocess_gt returns, the ambient generator having produced the
\* given draws (lines 181-209)
unprocess_gt_result(img, weights, z, u_red, u_blue) ==
    LET m == SampledMetadata(weights, z, u_red, u_blue)
    IN  [image |-> unprocess_gt_image(img, m), metadata |-> m]

NoLocal == [draws |-> NoValue, planes |-> <<>>, gray |-> NoTensor, mask |-> NoTensor,
            rng0 |-> [torch |-> 0, numpy |-> 0]]

Frame(f, a, img) ==
    /\ fn' = f
    /\ arg' = a
    /\ image' = img
    /\ meta' = NoValue
    /\ local' = [NoLocal EXCEPT !.rng0 = rng]
    /\ log' = <<>>
    /\ ret' = NoRet

\* a caller invokes unprocess(image)
Call_unprocess ==
    /\ pc = "idle"
    /\ \E img \in OrchestratorImages : Frame("unprocess", [image |-> img], img)
    /\ pc' = "sample"
    /\ UNCHANGED <<rng, hist>>

\* unprocess, lines 154-156: random_ccm, torch.inverse, random_gains
unprocess_sample ==
    /\ pc = "sample" /\ fn = "unprocess"
    /\ \E weights \in WeightDraws, z \in NormalDraws,
          u_red \in UniformDraws, u_blue \in UniformDraws :
            /\ meta' = SampledMetadata(weights, z, u_red, u_blue)
            /\ local' = [local EXCEPT !.draws = [weights |-> weights, z |-> z,
                                                 u_red |-> u_red, u_blue |-> u_blue]]
    /\ rng' = Advance(rng, SampleDraws)
    /\ log' = log \o <<"random_ccm", "random_gains">>
    /\ pc' = "inverse_smoothstep"
    /\ UNCHANGED <<fn, arg, image, ret, hist>>

\* unprocess, line 159
unprocess_inverse_smoothstep ==
    /\ pc = "inverse_smoothstep" /\ fn = "unprocess"
    /\ image' = inverse_smoothstep(image)
    /\ log' = Append(log, "inverse_smoothstep")
    /\ pc' = "gamma_expansion"
    /\ UNCHANGED <<rng, fn, arg, meta, local, ret, hist>>

\* the gamma step handing over to safe_invert_gains, the colour correction left out
unprocess_gamma_expansion_skipsCcm ==
    /\ pc = "gamma_expansion" /\ fn = "unprocess"
    /\ image' = gamma_expansion(image)
    /\ log' = Append(log, "gamma_expansion")
    /\ pc' = "safe_invert_gains"
    /\ UNCHANGED <<rng, fn, arg, meta, local, ret, hist>>

\* unprocess, line 161
unprocess_gamma_expansion ==
    /\ pc = "gamma_expansion" /\ fn = "unprocess"
    /\ image' = gamma_expansion(image)
    /\ log' = Append(log, "gamma_expansion")
    /\ pc' = "apply_ccm"
    /\ UNCHANGED <<rng, fn, arg, meta, local, ret, hist>>

\* unprocess, line 163
unprocess_apply_ccm ==
    /\ pc = "apply_ccm" /\ fn = "unprocess"
    /\ image' = apply_ccm(image, meta.rgb2cam)
    /\ log' = Append(log, "apply_ccm")
    /\ pc' = "safe_invert_gains"
    /\ UNCHANGED <<rng, fn, arg, meta, local, ret, hist>>

\* unprocess, line 165
unprocess_safe_invert_gains ==
    /\ pc = "safe_invert_gains" /\ fn = "unprocess"
    /\ image' = safe_invert_gains(image, meta.rgb_gain, meta.red_gain, meta.blue_gain)
    /\ log' = Append(log, "safe_invert_gains")
    /\ pc' = "clamp"
    /\ UNCHANGED <<rng, fn, arg, meta, local, ret, hist>>

\* unprocess, line 167
unprocess_clamp ==
    /\ pc = "clamp" /\ fn = "unprocess"
    /\ image' = Clamp(image, 0, Unit)
    /\ log' = Append(log, "clamp")
    /\ pc' = "mosaic"
    /\ UNCHANGED <<rng, fn, arg, meta, local, ret, hist>>

\* unprocess, line 169: the call of mosaic(image)
unprocess_mosaic ==
    /\ pc = "mosaic" /\ fn = "unprocess"
    /\ log' = Append(log, "mosaic")
    /\ pc' = "mosaic_slice"
    /\ UNCHANGED <<rng, fn, arg, image, meta, local, ret, hist>>

\* a caller invokes mosaic(image)
Call_mosaic ==
    /\ pc = "idle"
    /\ \E img \in MosaicImages : Frame("mosaic", [image |-> img], img)
    /\ pc' = "mosaic_slice"
    /\ UNCHANGED <<rng, hist>>

\* mosaic, lines 107-112: the four Bayer planes are sliced out of the image
mosaic_slice ==
    /\ pc = "mosaic_slice"
    /\ local' = [local EXCEPT !.planes = BayerPlanes(image)]
    /\ pc' = "mosaic_stack"
    /\ UNCHANGED <<rng, fn, arg, image, meta, log, ret, hist>>

\* mosaic, lines 113-117: torch.stack raises on planes of different shapes;
\* otherwise the result goes back to the caller
mosaic_stack ==
    /\ pc = "mosaic_stack"
    /\ IF ~Stackable(local.planes)
         THEN /\ pc' = "error"
              /\ ret' = [status |-> "error", value |-> NoValue]
              /\ UNCHANGED image
         ELSE /\ image' = MosaicOut(image, local.planes)
              /\ IF fn = "mosaic"
                   THEN /\ pc' = "return"
                        /\ ret' = [status |-> "ok", value |-> image']
                   ELSE /\ pc' = "metadata"
                        /\ UNCHANGED ret
    /\ UNCHANGED <<rng, fn, arg, meta, local, log, hist>>

\* unprocess, lines 171-178
unprocess_return ==
    /\ pc = "metadata" /\ fn = "unprocess"
    /\ ret' = [status |-> "ok",
               value |-> [image |-> image,
                          metadata |-> [cam2rgb |-> meta.cam2rgb, rgb2cam |-> meta.rgb2cam,
                                        rgb_gain |-> meta.rgb_gain,
                                        red_gain |-> meta.red_gain,
                                        blue_gain |-> meta.blue_gain]]]
    /\ pc' = "return"
    /\ UNCHANGED <<rng, fn, arg, image, meta, local, log, hist>>

\* a caller invokes unprocess_gt(image)
Call_unprocess_gt ==
    /\ pc = "idle"
    /\ \E img \in OrchestratorImages : Frame("unprocess_gt", [image |-> img], img)
    /\ pc' = "body"
    /\ UNCHANGED <<rng, hist>>

\* unprocess_gt, lines 181-209
unprocess_gt ==
    /\ pc = "body" /\ fn = "unprocess_gt"
    /\ \E weights \in WeightDraws, z \in NormalDraws,
          u_red \in UniformDraws, u_blue \in UniformDraws :
            /\ local' = [local EXCEPT !.draws = [weights |-> weights, z |-> z,
                                                 u_red |-> u_red, u_blue |-> u_blue]]
            /\ ret' = [status |-> "ok",
                       value |-> unprocess_gt_result(arg.image, weights, z, u_red, u_blue)]
    /\ rng' = Advance(rng, SampleDraws)
    /\ pc' = "return"
    /\ UNCHANGED <<fn, arg, image, meta, log, hist>>

\* the camera parameters callers hand to unprocess_meta_gt: gains and a
\* matrix some sampler produced, with the inverse of that matrix or with a
\* matrix that is not its inverse
MetaArgs ==
    UNION { { [rgb_gains |-> g.rgb_gain, red_gains |-> g.red_gain, blue_gains |-> g.blue_gain,
               rgb2cam |-> random_ccm(w), cam2rgb |-> c] :
                g \in DefaultGains, c \in {Inverse(random_ccm(w)), Identity3} } :
            w \in WeightDraws }

\* a caller invokes unprocess_meta_gt(image, rgb_gains, red_gains, blue_gains, rgb2cam, cam2rgb)
CallMetaGt(images, params) ==
    /\ pc = "idle"
    /\ \E img \in images, a \in params :
          Frame("unprocess_meta_gt",
                [image |-> img, rgb_gains |-> a.rgb_gains, red_gains |-> a.red_gains,
                 blue_gains |-> a.blue_gains, rgb2cam |-> a.rgb2cam, cam2rgb |-> a.cam2rgb],
                img)
    /\ pc' = "body"
    /\ UNCHANGED <<rng, hist>>

Call_unprocess_meta_gt == CallMetaGt(OrchestratorImages, MetaArgs)

\* unprocess_meta_gt, lines 212-236
unprocess_meta_gt ==
    /\ pc = "body" /\ fn = "unprocess_meta_gt"
    /\ ret' = [status |-> "ok",
               value |-> unprocess_meta_gt_result(arg.image, arg.rgb_gains, arg.red_gains,
                                                  arg.blue_gains, arg.rgb2cam, arg.cam2rgb)]
    /\ pc' = "return"
    /\ UNCHANGED <<rng, fn, arg, image, meta, local, log, hist>>

\* the call is over: its frame is gone, and the caller holds the result
Return ==
    /\ pc \in {"return", "error"}
    /\ pc' = "idle"
    /\ fn' = "none"
    /\ arg' = NoValue
    /\ image' = NoTensor
    /\ meta' = NoValue
    /\ local' = NoLocal
    /\ log' = <<>>
    /\ ret' = NoRet
    /\ UNCHANGED <<rng, hist>>

Init ==
    /\ rng \in [torch : 0 .. RngPeriod - 1, numpy : {0}]
    /\ pc = "idle"
    /\ fn = "none"
    /\ arg = NoValue
    /\ image = NoTensor
    /\ meta = NoValue
    /\ local = NoLocal
    /\ log = <<>>
    /\ ret = NoRet
    /\ hist = NoHist

Next ==
    \/ Call_unprocess
    \/ unprocess_sample
    \/ unprocess_inverse_smoothstep
    \/ unprocess_gamma_expansion
    \/ unprocess_apply_ccm
    \/ unprocess_safe_invert_gains
    \/ unprocess_clamp
    \/ unprocess_mosaic
    \/ Call_mosaic
    \/ mosaic_slice
    \/ mosaic_stack
    \/ unprocess_return
    \/ Call_unprocess_gt
    \/ unprocess_gt
    \/ Call_unprocess_meta_gt
    \/ unprocess_meta_gt
    \/ Return

Spec == Init /\ [][Next]_vars

----------------------------------------------------------------------------
(* Properties of the orchestrators and of mosaic *)

IsPrefix(a, b) == Len(a) <= Len(b) /\ \A k \in 1 .. Len(a) : a[k] = b[k]

InSeq(x, q) == \E k \in 1 .. Len(q) : q[k] = x

StageOrder ==
    << "random_ccm", "random_gains", "inverse_smoothstep", "gamma_expansion",
       "apply_ccm", "safe_invert_gains", "clamp", "mosaic" >>

\* the number of stages a call of unprocess has invoked when it is at pc
StagesDoneAt ==
    [p \in {"sample", "inverse_smoothstep", "gamma_expansion", "apply_ccm",
            "safe_invert_gains", "clamp", "mosaic", "mosaic_slice", "mosaic_stack",
            "metadata", "return", "error"} |->
        CASE p = "sample" -> 0
          [] p = "inverse_smoothstep" -> 2
          [] p = "gamma_expansion" -> 3
          [] p = "apply_ccm" -> 4
          [] p = "safe_invert_gains" -> 5
          [] p = "clamp" -> 6
          [] p = "mosaic" -> 7
          [] OTHER -> 8]

\* C1: every call of unprocess invokes the sampling (CCM, gains) and then the
\* stages inverse_smoothstep, gamma_expansion, apply_ccm, safe_invert_gains,
\* clamp, mosaic, each once and in this order, and nothing else (no noise
\* stage); the image handed to mosaic is the input taken through those stages
\* with the sampled rgb2cam and the sampled gains.
C1_StagesInOrder ==
    fn = "unprocess" =>
        /\ IsPrefix(log, StageOrder)
        /\ Len(log) = StagesDoneAt[pc]
        /\ ~InSeq("add_noise", log) /\ ~InSeq("add_noise_test", log)
        /\ pc = "mosaic" =>
             image = Clamp(safe_invert_gains(
                               apply_ccm(gamma_expansion(inverse_smoothstep(arg.image)),
                                         meta.rgb2cam),
                               meta.rgb_gain, meta.red_gain, meta.blue_gain), 0, Unit)

C1_Witness == fn = "unprocess" /\ pc = "return" /\ log = StageOrder

\* C2: for an image of shape (3, H, W) with H and W even, mosaic returns an
\* array of shape (4, H/2, W/2) holding red, green (red row), green (blue
\* row), blue of each 2x2 cell.
C2_BayerLayout ==
    (fn = "mosaic" /\ pc = "return" /\ ~OddShaped(arg.image)) =>
        LET H == arg.image.shape[2]
            W == arg.image.shape[3]
            out == ret.value
        IN  /\ ret.status = "ok"
            /\ out.shape = <<4, H \div 2, W \div 2>>
            /\ \A i \in 0 .. (H \div 2) - 1, j \in 0 .. (W \div 2) - 1 :
                 /\ At(out, <<0, i, j>>) = At(arg.image, <<0, 2 * i, 2 * j>>)
                 /\ At(out, <<1, i, j>>) = At(arg.image, <<1, 2 * i, 2 * j + 1>>)
                 /\ At(out, <<2, i, j>>) = At(arg.image, <<1, 2 * i + 1, 2 * j>>)
                 /\ At(out, <<3, i, j>>) = At(arg.image, <<2, 2 * i + 1, 2 * j + 1>>)

C2_Witness ==
    fn = "mosaic" /\ pc = "return" /\ arg.image.shape = <<3, 4, 4>>
        /\ At(ret.value, <<3, 1, 1>>) = At(arg.image, <<2, 3, 3>>)

\* C3: with the same outcome of the random draws, what a call of unprocess
\* hands back is mosaic applied to the image unprocess_gt returns (the error
\* of mosaic when that image is odd-shaped), that image has the shape of the
\* input, and the metadata records are equal.
C3_UnprocessIsMosaicOfGt ==
    (fn = "unprocess" /\ pc \in {"return", "error"}) =>
        LET gt == unprocess_gt_result(arg.image, local.draws.weights, local.draws.z,
                                      local.draws.u_red, local.draws.u_blue)
            m == mosaic(gt.image)
        IN  /\ gt.image.shape = arg.image.shape
            /\ IF m.ok
                 THEN /\ pc = "return"
                      /\ ret.value.image = m.image
                      /\ ret.value.metadata = gt.metadata
                 ELSE pc = "error"

C3_Witness ==
    /\ fn = "unprocess" /\ pc = "return"
    /\ ret.value.image.shape = <<4, 1, 1>>
    /\ At(ret.value.image, <<0, 0, 0>>) # At(ret.value.image, <<3, 0, 0>>)

MetadataKeys == {"cam2rgb", "rgb2cam", "rgb_gain", "red_gain", "blue_gain"}

Orchestrators == {"unprocess", "unprocess_gt", "unprocess_meta_gt"}

\* a is the inverse of b up to the resolution of the matrices
IsInverse(a, b) ==
    \A i \in 1 .. 3, j \in 1 .. 3 :
        Abs(MatMul(a, b)[i][j] - Identity3[i][j]) <= CcmUnit \div 1000

\* C4 as stated: every metadata record an orchestrator returns has the five
\* keys, and its cam2rgb is the inverse of its rgb2cam, whatever the caller passed.
C4_AsStated ==
    (fn \in Orchestrators /\ pc = "return") =>
        /\ DOMAIN ret.value.metadata = MetadataKeys
        /\ IsInverse(ret.value.metadata.cam2rgb, ret.value.metadata.rgb2cam)

\* C4, amended: every metadata record an orchestrator returns has the five
\* keys; unprocess and unprocess_gt return a cam2rgb that is the inverse of
\* rgb2cam; unprocess_meta_gt returns the caller's rgb2cam, cam2rgb and gains
\* unchanged, so there cam2rgb is the inverse of rgb2cam exactly when the
\* caller passed an inverse pair.
C4_MetadataRecord ==
    (fn \in Orchestrators /\ pc = "return") =>
        LET md == ret.value.metadata
        IN  /\ DOMAIN md = MetadataKeys
            /\ fn \in {"unprocess", "unprocess_gt"} => IsInverse(md.cam2rgb, md.rgb2cam)
            /\ fn = "unprocess_meta_gt" =>
                 /\ md.cam2rgb = arg.cam2rgb /\ md.rgb2cam = arg.rgb2cam
                 /\ md.rgb_gain = arg.rgb_gains /\ md.red_gain = arg.red_gains
                 /\ md.blue_gain = arg.blue_gains
                 /\ IsInverse(md.cam2rgb, md.rgb2cam) <=> IsInverse(arg.cam2rgb, arg.rgb2cam)

C4_Witness ==
    /\ fn = "unprocess_meta_gt" /\ pc = "return"
    /\ ~IsInverse(ret.value.metadata.cam2rgb, ret.value.metadata.rgb2cam)

\* C6 as stated: an odd-shaped image is rejected before mosaic slices any
\* Bayer plane out of it, and no output is returned.
C6_AsStated ==
    (fn \in {"mosaic", "unprocess"} /\ OddShaped(arg.image)) =>
        /\ local.planes = <<>>
        /\ pc # "return"

\* C6, amended: a call of mosaic (directly or from unprocess) on an image of
\* odd height or width never returns an output: it ends in the error that
\* torch.stack raises on the four planes, after they were sliced out of the
\* image (and, in unprocess, after every earlier stage has run).
C6_OddShapeRaisesInStack ==
    /\ (fn \in {"mosaic", "unprocess"} /\ OddShaped(arg.image)) =>
          /\ pc \notin {"metadata", "return"}
          /\ ret.status # "ok"
          /\ pc = "mosaic_stack" => ~Stackable(local.planes)
    /\ pc = "error" =>
          /\ fn \in {"mosaic", "unprocess"} /\ OddShaped(arg.image)
          /\ Len(local.planes) = 4
          /\ fn = "unprocess" => log = StageOrder

C6_Witness ==
    pc = "error" /\ fn = "unprocess" /\ Len(local.planes) = 4 /\ arg.image.shape = <<3, 1, 2>>

----------------------------------------------------------------------------
(* The gains: random_gains and safe_invert_gains called on their own *)

\* values of one channel of a pixel: below zero and above one as colour
\* correction can leave them, dark, near white and white
PixelLevels == {-10, 0, 90, 95, 100, 130}

\* single pixels
GainImages ==
    { [shape |-> <<3, 1, 1>>, data |-> <<r, g, b>>] :
        r \in PixelLevels, g \in PixelLevels, b \in PixelLevels }

Saturated(img) == \A k \in 1 .. Len(img.data) : img.data[k] = Unit

\* a caller invokes random_gains()
Call_random_gains ==
    /\ pc = "idle"
    /\ Frame("random_gains", DefaultGainArgs, NoTensor)
    /\ pc' = "body"
    /\ UNCHANGED <<rng, hist>>

\* random_gains, lines 35-49
Run_random_gains ==
    /\ pc = "body" /\ fn = "random_gains"
    /\ \E z \in NormalDraws, u_red \in UniformDraws, u_blue \in UniformDraws :
          /\ local' = [local EXCEPT !.draws = [z |-> z, u_red |-> u_red, u_blue |-> u_blue]]
          /\ ret' = [status |-> "ok",
                     value |-> random_gains(arg.rgb_gain_ratio, arg.red_gain_range,
                                            arg.blue_gain_range, z, u_red, u_blue)]
    /\ rng' = Advance(rng, 3)
    /\ pc' = "return"
    /\ UNCHANGED <<fn, arg, image, meta, log, hist>>

\* a caller invokes safe_invert_gains(image, rgb_gain, red_gain, blue_gain)
\* with gains random_gains has produced
Call_safe_invert_gains ==
    /\ pc = "idle"
    /\ \E img \in GainImages, g \in DefaultGains :
          Frame("safe_invert_gains",
                [image |-> img, rgb_gain |-> g.rgb_gain, red_gain |-> g.red_gain,
                 blue_gain |-> g.blue_gain], img)
    /\ pc' = "body"
    /\ UNCHANGED <<rng, hist>>

\* safe_invert_gains, lines 85-101
Run_safe_invert_gains ==
    /\ pc = "body" /\ fn = "safe_invert_gains"
    /\ LET r == safe_invert_gains_locals(arg.image, arg.rgb_gain, arg.red_gain, arg.blue_gain)
       IN  /\ local' = [local EXCEPT !.gray = r.gray, !.mask = r.mask]
           /\ ret' = [status |-> "ok", value |-> r.out]
    /\ pc' = "return"
    /\ UNCHANGED <<rng, fn, arg, image, meta, log, hist>>

NextGains ==
    \/ Call_random_gains
    \/ Run_random_gains
    \/ Call_safe_invert_gains
    \/ Run_safe_invert_gains
    \/ Return

SpecGains == Init /\ [][NextGains]_vars

\* C5 as stated: for any gains random_gains can produce, safe_invert_gains
\* returns a fully saturated pixel unchanged.
C5_AsStated ==
    (fn = "safe_invert_gains" /\ pc = "return" /\ Saturated(arg.image)) =>
        ret.value = arg.image

\* C5, amended: for any gains random_gains can produce, safe_invert_gains
\* never dims a fully saturated pixel: each output channel is max(1.0, g)
\* for that channel's gain g = (1/red_gain, 1, 1/blue_gain) / rgb_gain, so the
\* pixel comes back unchanged whenever rgb_gain >= 1 (or rgb_gain < 0), and
\* with a channel above 1.0 exactly when a gain exceeds 1.
C5_SaturatedNeverDimmed ==
    (fn = "safe_invert_gains" /\ pc = "return" /\ Saturated(arg.image)) =>
        LET gains == ChannelGains(arg.rgb_gain, arg.red_gain, arg.blue_gain)
        IN  /\ \A ch \in 0 .. 2 :
                 /\ At(ret.value, <<ch, 0, 0>>) = Max(Unit, gains[ch + 1])
                 /\ At(ret.value, <<ch, 0, 0>>) >= Unit
            /\ (arg.rgb_gain >= Unit \/ arg.rgb_gain < 0) => ret.value = arg.image
            /\ ret.value # arg.image <=> \E ch \in 1 .. 3 : gains[ch] > Unit

C5_Witness ==
    /\ fn = "safe_invert_gains" /\ pc = "return" /\ Saturated(arg.image)
    /\ arg.rgb_gain < Unit /\ arg.rgb_gain > 0
    /\ At(ret.value, <<1, 0, 0>>) > Unit

\* C7: every gain triple random_gains() returns with its default arguments
\* has rgb_gain > 0, 1.9 <= red_gain <= 2.4 and 1.5 <= blue_gain <= 1.9.
C7_GainRanges ==
    (fn = "random_gains" /\ pc = "return") =>
        /\ ret.value.rgb_gain > 0
        /\ 190 <= ret.value.red_gain /\ ret.value.red_gain <= 240
        /\ 150 <= ret.value.blue_gain /\ ret.value.blue_gain <= 190

\* C10 as stated: the mask of every pixel is clamp((gray - 0.9) / 0.1, 0, 1)^2,
\* within [0, 1], 0 for gray <= 0.9 and 1 for every gray >= 1.0.
C10_AsStated ==
    (fn = "safe_invert_gains" /\ pc = "return") =>
        \A k \in 1 .. Len(local.mask.data) :
            LET gray == local.gray.data[k]
                mask == local.mask.data[k]
                ramp == Min(Max(FDiv(gray - inflection, Unit - inflection), 0), Unit)
            IN  /\ 0 <= mask /\ mask <= Unit
                /\ mask = FMul(ramp, ramp)
                /\ gray <= inflection => mask = 0
                /\ gray >= Unit => mask = Unit

\* C10, amended: the mask of every pixel is (max(gray - 0.9, 0) / 0.1)^2 for
\* the mean gray of the pixel's three channels: it is never negative, 0 for
\* gray <= 0.9, within [0, 1] for gray <= 1.0, 1 at gray = 1.0, and greater
\* than 1 for every gray > 1.0 (the ramp is clamped from below only).
C10_MaskUnclampedAbove ==
    (fn = "safe_invert_gains" /\ pc = "return") =>
        \A k \in 1 .. Len(local.mask.data) :
            LET gray == local.gray.data[k]
                mask == local.mask.data[k]
                ramp == FDiv(Max(gray - inflection, 0), Unit - inflection)
            IN  /\ gray = RoundDiv(SumSeq(arg.image.data), 3)
                /\ mask = FMul(ramp, ramp)
                /\ mask >= 0
                /\ gray <= inflection => mask = 0
                /\ gray <= Unit => mask <= Unit
                /\ gray = Unit => mask = Unit
                /\ gray > Unit => mask > Unit

C10_Witness ==
    /\ fn = "safe_invert_gains" /\ pc = "return"
    /\ local.gray.data[1] > Unit /\ local.mask.data[1] > Unit

----------------------------------------------------------------------------
(* The generators: samplers and noise stages called in any order *)

\* a caller invokes random_ccm()
Call_random_ccm ==
    /\ pc = "idle"
    /\ Frame("random_ccm", NoValue, NoTensor)
    /\ pc' = "body"
    /\ UNCHANGED <<rng, hist>>

\* random_ccm, lines 7-32
Run_random_ccm ==
    /\ pc = "body" /\ fn = "random_ccm"
    /\ \E weights \in WeightDraws :
          ret' = [status |-> "ok", value |-> random_ccm(weights)]
    /\ rng' = Advance(rng, num_ccms)
    /\ pc' = "return"
    /\ UNCHANGED <<fn, arg, image, meta, local, log, hist>>

\* shot_noise = exp(log_shot_noise), log_shot_noise uniform on
\* [ln 0.0001, ln 0.012], in units of 1e-6, the draw on [0, 1) being u
ShotNoise(u) == IF u = 0 THEN 100 ELSE 11439

\* read_noise = exp(2.18 * log_shot_noise + 1.20 + N(0, 0.26)), in units of
\* 1e-6, the draws being u and the z-score z
ReadNoise(u, z) ==
    IF u = 0 THEN 0
    ELSE CASE z = -850 -> 21 [] z = -800 -> 24 [] z = 0 -> 194 [] OTHER -> 424

\* a caller invokes random_noise_levels()
Call_random_noise_levels ==
    /\ pc = "idle"
    /\ Frame("random_noise_levels", NoValue, NoTensor)
    /\ pc' = "body"
    /\ UNCHANGED <<rng, hist>>

\* random_noise_levels, lines 239-253
Run_random_noise_levels ==
    /\ pc = "body" /\ fn = "random_noise_levels"
    /\ \E u \in UniformDraws, z \in NormalDraws :
          ret' = [status |-> "ok",
                  value |-> [shot_noise |-> ShotNoise(u), read_noise |-> ReadNoise(u, z)]]
    /\ rng' = Advance(rng, 2)
    /\ pc' = "return"
    /\ UNCHANGED <<fn, arg, image, meta, local, log, hist>>

\* a caller invokes random_noise_levels_kpn()
Call_random_noise_levels_kpn ==
    /\ pc = "idle"
    /\ Frame("random_noise_levels_kpn", NoValue, NoTensor)
    /\ pc' = "body"
    /\ UNCHANGED <<rng, hist>>

\* random_noise_levels_kpn, lines 120-130: sigma_read = 10^U(-3, -1.5) and
\* sigma_shot = 10^U(-4, -2), in units of 1e-6, drawn from numpy's generator
Run_random_noise_levels_kpn ==
    /\ pc = "body" /\ fn = "random_noise_levels_kpn"
    /\ \E u_read \in UniformDraws, u_shot \in UniformDraws :
          ret' = [status |-> "ok",
                  value |-> [sigma_shot |-> IF u_shot = 0 THEN 100 ELSE 9550,
                             sigma_read |-> IF u_read = 0 THEN 1000 ELSE 30549]]
    /\ rng' = AdvanceNumpy(rng, 2)
    /\ pc' = "return"
    /\ UNCHANGED <<fn, arg, image, meta, local, log, hist>>

\* the images handed to the noise stages and, here, to unprocess_meta_gt
NoiseImages == { PatternImage(1, 1, 50, 0), PatternImage(1, 1, 20, 30) }

\* outcomes of one standard normal draw of the noise field
NoiseDraws == {-100, 100}

\* a caller invokes add_noise(image, shot_noise, read_noise)
Call_add_noise ==
    /\ pc = "idle"
    /\ \E img \in NoiseImages :
          Frame("add_noise",
                [image |-> img, shot_noise |-> 1, read_noise |-> 5,
                 read_noise_exponent |-> 2], img)
    /\ pc' = "body"
    /\ UNCHANGED <<rng, hist>>

\* add_noise, lines 133-147
Run_add_noise ==
    /\ pc = "body" /\ fn = "add_noise"
    /\ \E zs \in [1 .. NumEl(arg.image.shape) -> NoiseDraws] :
          ret' = [status |-> "ok",
                  value |-> add_noise(arg.image, arg.shot_noise, arg.read_noise,
                                      arg.read_noise_exponent, zs)]
    /\ rng' = Advance(rng, NumEl(arg.image.shape))
    /\ pc' = "return"
    /\ UNCHANGED <<fn, arg, image, meta, local, log, hist>>

\* a caller invokes add_noise_test(image, shot_noise, read_noise, count)
Call_add_noise_test ==
    /\ pc = "idle"
    /\ \E img \in NoiseImages, shot \in {1, 4}, count \in 0 .. MaxCount :
          Frame("add_noise_test",
                [image |-> img, shot_noise |-> shot, read_noise |-> 5, count |-> count], img)
    /\ pc' = "body"
    /\ UNCHANGED <<rng, hist>>

\* add_noise_test, lines 256-274
Run_add_noise_test ==
    /\ pc = "body" /\ fn = "add_noise_test"
    /\ ret' = [status |-> "ok",
               value |-> add_noise_test(arg.image, arg.shot_noise, arg.read_noise, arg.count)]
    /\ pc' = "return"
    /\ UNCHANGED <<rng, fn, arg, image, meta, local, log, hist>>

\* camera parameters some earlier call sampled
NoiseMetaArgs ==
    { a \in MetaArgs : a.rgb2cam = random_ccm(<<5, 5, 5, 5>>) /\ a.cam2rgb # Identity3
                        /\ a.red_gains = 190 /\ a.blue_gains = 150
                        /\ a.rgb_gains \in {91, 125} }

Call_unprocess_meta_gt_again == CallMetaGt(NoiseImages, NoiseMetaArgs)

\* the call is over, and the caller keeps what the explicitly parameterised
\* entry points returned to compare it with a later call
ReturnKeep ==
    /\ pc = "return"
    /\ hist' = IF fn \in {"unprocess_meta_gt", "add_noise_test"}
                 THEN [fn |-> fn, arg |-> arg, rng |-> local.rng0, ret |-> ret]
                 ELSE hist
    /\ pc' = "idle"
    /\ fn' = "none"
    /\ arg' = NoValue
    /\ image' = NoTensor
    /\ meta' = NoValue
    /\ local' = NoLocal
    /\ log' = <<>>
    /\ ret' = NoRet
    /\ UNCHANGED rng

InitGenerators ==
    /\ rng \in [torch : 0 .. RngPeriod - 1, numpy : 0 .. RngPeriod - 1]
    /\ pc = "idle"
    /\ fn = "none"
    /\ arg = NoValue
    /\ image = NoTensor
    /\ meta = NoValue
    /\ local = NoLocal
    /\ log = <<>>
    /\ ret = NoRet
    /\ hist = NoHist

NextGenerators ==
    \/ Call_random_ccm
    \/ Run_random_ccm
    \/ Call_random_gains
    \/ Run_random_gains
    \/ Call_random_noise_levels
    \/ Run_random_noise_levels
    \/ Call_random_noise_levels_kpn
    \/ Run_random_noise_levels_kpn
    \/ Call_add_noise
    \/ Run_add_noise
    \/ Call_add_noise_test
    \/ Run_add_noise_test
    \/ Call_unprocess_meta_gt_again
    \/ unprocess_meta_gt
    \/ ReturnKeep

SpecGenerators == InitGenerators /\ [][NextGenerators]_vars

\* the running call repeats the arguments of the call the caller kept
RepeatsKeptCall == pc = "return" /\ hist.fn = fn /\ hist.arg = arg

\* C8: a call of unprocess_meta_gt with the image and the camera parameters
\* of an earlier call returns the same image, whatever the positions of the
\* ambient generators and whatever sampler and noise calls came between; the
\* call itself draws nothing from them.
C8_MetaGtDeterministic ==
    (fn = "unprocess_meta_gt" /\ pc = "return") =>
        /\ rng = local.rng0
        /\ RepeatsKeptCall => ret.value.image = hist.ret.value.image

C8_Witness ==
    /\ fn = "unprocess_meta_gt" /\ RepeatsKeptCall
    /\ hist.rng.torch # rng.torch /\ hist.rng.numpy # rng.numpy

\* C9: a call of add_noise_test with the image, shot_noise, read_noise and
\* count of an earlier call returns the same output, whatever calls of the
\* ambient-generator samplers came before or between: its noise comes from a
\* generator seeded with count, and the ambient generators are left alone.
C9_NoiseTestReproducible ==
    (fn = "add_noise_test" /\ pc = "return") =>
        /\ rng = local.rng0
        /\ RepeatsKeptCall => ret.value = hist.ret.value

C9_Witness ==
    /\ fn = "add_noise_test" /\ RepeatsKeptCall
    /\ hist.rng.torch # rng.torch /\ hist.rng.numpy # rng.numpy
    /\ ret.value # arg.image

====
